---- MODULE Spec2Model ----
(***************************************************************************)
(* Model of libdevm/core.py: the Hook / Builder / Recipe object model and  *)
(* the step-execution contract of its four primitive steps.                *)
(*                                                                         *)
(* Hooks live on a heap, so that the aliasing between a Builder and the    *)
(* Recipe derived from it is part of the state.  A Builder creates at most *)
(* one Hook in each of its four selection methods, so a Hook object is     *)
(* named by the method that created it.  A step is the closure created by  *)
(* a step constructor: a record of its captured variables.  External       *)
(* collaborators (requests, xtract, shutil.rmtree, subprocess.run) are     *)
(* nondeterministic outcomes.  Hook.__call__ is a loop; every iteration is *)
(* one action and the position of the loop is part of the state.  A Hook   *)
(* is invoked through the Recipe operations, which return what             *)
(* Hook.__call__ returns.                                                  *)
(***************************************************************************)
EXTENDS Integers, Sequences, FiniteSets, TLC

VARIABLES
    builder,    \* the Builder dataclass instance (fields of lines 59-65)
    heap,       \* the Hook objects created so far, by reference
    recipe,     \* the Recipe last returned by to_recipe, or NoRecipe
    frame,      \* the last call of the caller: a Builder call and its outcome, or the
                \* running / finished Recipe operation or Hook invocation
    ncalls,     \* history: number of Builder calls made so far
    nsteps,     \* number of step closures created so far (closure identity)
    created,    \* history: closure i as it was created, the selection in force then,
                \* and the number of the call that created it
    selected,   \* history: the kind of the last selection call ("none": no such
                \* call yet) and the number of that call
    finalized,  \* history: the number of the to_recipe call that returned recipe
    failed      \* history: the number of the last to_recipe call that raised
                \* HooksMissing (0: no such call yet)

vars == <<builder, heap, recipe, frame, ncalls, nsteps, created, selected, finalized, failed>>

-----------------------------------------------------------------------------
(* Bounds *)

MaxCalls == 4       \* calls the caller makes on a Builder

-----------------------------------------------------------------------------
(* Values *)

EX_OK == 0
EX_SOFTWARE == 70

NONE == "None"                          \* the None Hook reference
None == [isNone |-> TRUE]               \* None where a str is optional
Some(v) == [isNone |-> FALSE, v |-> v]

Kinds == {"install", "uninstall", "update", "is_updated"}
StepOps == {"download", "extract", "rm", "cmd"}

\* A str is a sequence of code points; SUR is a lone surrogate, which UTF-8
\* cannot encode.  A bytes value is a sequence of byte tokens.
SUR == "\\ud800"
Names == {<<"n">>}
Descriptions == {<<"d">>}
Urls == {<<"u">>}
Paths == {<<"p", SUR>>}
Dests == {None, Some(<<"q">>)}
Flags == {<<FALSE, FALSE, FALSE>>}
Argvs == {<<"x">>}
StepCwds == {<<>>, <<"a">>}             \* the cwd keyword of Builder.cmd
ProcessCwds == {<<"a">>, <<"b">>}       \* working directories of the caller
DebugValues == {None, Some(<<>>), Some(<<"1">>)}
ErrorTexts == {<<"e">>}
ExitCodes == {0, 7, EX_SOFTWARE}
ProcessOutputs == {<<"o">>}

\* str.encode("utf-8", errors="ignore"): unencodable code points are dropped
encode(s) == SelectSeq(s, LAMBDA c : c # SUR)

\* Python truthiness of an optional str: None and "" are falsy
truthy(o) == ~o.isNone /\ o.v # <<>>

StepExecutionResult(rc, out, err) == [return_code |-> rc, stdout |-> out, stderr |-> err]

Hook(steps, description) == [steps |-> steps, description |-> description]

NoRecipe == [made |-> FALSE]

IdleFrame ==
    [pc |-> "idle", op |-> "none", hook |-> NONE, i |-> 0, r |-> <<>>,
     log |-> <<>>, notice |-> <<>>, exc |-> "none", truth |-> FALSE, calls |-> 0,
     environ |-> None, getcwd |-> <<>>]

\* the frame after a Builder call: it returned self, or raised exc
done(op, exc) ==
    [IdleFrame EXCEPT !.pc = IF exc = "none" THEN "returned" ELSE "raised", !.op = op, !.exc = exc]

RecipeOps == {"Recipe.install", "Recipe.update", "Recipe.uninstall", "Recipe.is_updated"}

\* the Builder's slot of a kind
slot(b, k) ==
    CASE k = "install"    -> b.install_hook
      [] k = "uninstall"  -> b.uninstall_hook
      [] k = "update"     -> b.update_hook
      [] k = "is_updated" -> b.is_updated_hook

-----------------------------------------------------------------------------
(* recipe(name, description): the entry factory *)

Init ==
    /\ \E n \in Names, d \in Descriptions :
         builder = [name |-> n, description |-> d, current_hook |-> NONE,
                    install_hook |-> NONE, uninstall_hook |-> NONE,
                    update_hook |-> NONE, is_updated_hook |-> NONE]
    /\ heap = <<>>        \* the function with empty domain
    /\ recipe = NoRecipe
    /\ frame = IdleFrame
    /\ ncalls = 0
    /\ nsteps = 0
    /\ created = <<>>
    /\ selected = [kind |-> "none", at |-> 0]
    /\ finalized = 0
    /\ failed = 0

\* The program is single-threaded: the caller makes its next call only when
\* no Hook invocation is in progress.
CallerRuns == frame.pc # "running"

\* the caller makes one more call on the Builder
BuilderCall == CallerRuns /\ ncalls < MaxCalls /\ ncalls' = ncalls + 1

-----------------------------------------------------------------------------
(* Builder: hook selection *)

\* a faulty selection: it stores a new empty Hook every time
select_reset(k, description) ==
    /\ BuilderCall
    /\ heap' = (k :> Hook(<<>>, description)) @@ heap
    /\ builder' =
         CASE k = "install"    -> [builder EXCEPT !.install_hook = k, !.current_hook = k]
           [] k = "uninstall"  -> [builder EXCEPT !.uninstall_hook = k, !.current_hook = k]
           [] k = "update"     -> [builder EXCEPT !.update_hook = k, !.current_hook = k]
           [] k = "is_updated" -> [builder EXCEPT !.is_updated_hook = k, !.current_hook = k]
    /\ frame' = done(k, "none")
    /\ selected' = [kind |-> k, at |-> ncalls']
    /\ UNCHANGED <<recipe, nsteps, created, finalized, failed>>

\* a faulty selection: it makes the hook current only when it creates it
select_stale(k, description) ==
    /\ BuilderCall
    /\ LET fresh == slot(builder, k) = NONE
           h == IF fresh THEN k ELSE slot(builder, k)
           c == IF fresh THEN h ELSE builder.current_hook
       IN /\ heap' = IF fresh THEN (h :> Hook(<<>>, description)) @@ heap ELSE heap
          /\ builder' =
               CASE k = "install"    -> [builder EXCEPT !.install_hook = h, !.current_hook = c]
                 [] k = "uninstall"  -> [builder EXCEPT !.uninstall_hook = h, !.current_hook = c]
                 [] k = "update"     -> [builder EXCEPT !.update_hook = h, !.current_hook = c]
                 [] k = "is_updated" -> [builder EXCEPT !.is_updated_hook = h, !.current_hook = c]
    /\ frame' = done(k, "none")
    /\ selected' = [kind |-> k, at |-> ncalls']
    /\ UNCHANGED <<recipe, nsteps, created, finalized, failed>>

\* the body shared by install / uninstall / update / is_updated
select(k, description) ==
    /\ BuilderCall
    /\ LET fresh == slot(builder, k) = NONE
           h == IF fresh THEN k ELSE slot(builder, k)
       IN /\ heap' = IF fresh THEN (h :> Hook(<<>>, description)) @@ heap ELSE heap
          /\ builder' =
               CASE k = "install"    -> [builder EXCEPT !.install_hook = h, !.current_hook = h]
                 [] k = "uninstall"  -> [builder EXCEPT !.uninstall_hook = h, !.current_hook = h]
                 [] k = "update"     -> [builder EXCEPT !.update_hook = h, !.current_hook = h]
                 [] k = "is_updated" -> [builder EXCEPT !.is_updated_hook = h, !.current_hook = h]
    /\ frame' = done(k, "none")
    /\ selected' = [kind |-> k, at |-> ncalls']
    /\ UNCHANGED <<recipe, nsteps, created, finalized, failed>>

install == \E d \in Descriptions : select("install", d)
uninstall == \E d \in Descriptions : select("uninstall", d)
update == \E d \in Descriptions : select("update", d)
is_updated == \E d \in Descriptions : select("is_updated", d)

-----------------------------------------------------------------------------
(* Builder: step constructors *)

\* Builder._check_current_hook: TRUE when it raises CurrentHooksNotSet
\* a faulty check: it never raises
check_current_hook_never == FALSE
check_current_hook == builder.current_hook = NONE

\* self._current_hook.steps.append(step_), after _check_current_hook; None
\* has no attribute steps
append_step(op, step) ==
    /\ BuilderCall
    /\ IF check_current_hook
       THEN /\ frame' = done(op, "CurrentHooksNotSet")
            /\ UNCHANGED <<builder, heap, nsteps, created>>
       ELSE IF builder.current_hook = NONE
       THEN /\ frame' = done(op, "AttributeError")
            /\ UNCHANGED <<builder, heap, nsteps, created>>
       ELSE /\ LET h == builder.current_hook
                   s == [step EXCEPT !.id = nsteps + 1]
               IN /\ heap' = [heap EXCEPT ![h].steps = Append(@, s)]
                  /\ created' = Append(created, [step |-> s, selected |-> selected, at |-> ncalls'])
            /\ nsteps' = nsteps + 1
            /\ frame' = done(op, "none")
            /\ UNCHANGED builder
    /\ UNCHANGED <<recipe, selected, finalized, failed>>

download ==
    \E url \in Urls, path \in Paths :
        append_step("download", [id |-> 0, kind |-> "download", url |-> url, path |-> path])

extract ==
    \E src \in Paths, dest \in Dests, fl \in Flags :
        append_step("extract", [id |-> 0, kind |-> "extract", src |-> src, dest |-> dest,
                                overwrite |-> fl[1], all_ |-> fl[2], keep_intermediate |-> fl[3]])

rm ==
    \E path \in Paths :
        append_step("rm", [id |-> 0, kind |-> "rm", path |-> path])

cmd ==
    \E argv \in Argvs, c \in StepCwds :
        append_step("cmd", [id |-> 0, kind |-> "cmd", cmd |-> argv, cwd |-> c])

-----------------------------------------------------------------------------
(* Builder: finalization *)

\* a faulty condition: any() where the code has all()
hooks_missing_any(b, environ) ==
    ~(b.install_hook # NONE \/ b.uninstall_hook # NONE) /\ ~truthy(environ)

\* the condition under which to_recipe raises HooksMissing
hooks_missing(b, environ) ==
    ~(b.install_hook # NONE /\ b.uninstall_hook # NONE) /\ ~truthy(environ)

\* a faulty finalization: the failing call forgets the current hook
to_recipe_forgetful ==
    /\ BuilderCall
    /\ \E environ \in DebugValues :
       IF hooks_missing(builder, environ)
       THEN /\ frame' = [done("to_recipe", "HooksMissing") EXCEPT !.environ = environ]
            /\ failed' = ncalls'
            /\ builder' = [builder EXCEPT !.current_hook = NONE]
            /\ UNCHANGED <<recipe, finalized>>
       ELSE /\ recipe' = [made |-> TRUE,
                          name |-> builder.name,
                          description |-> <<>>,
                          install_hook |-> builder.install_hook,
                          uninstall_hook |-> builder.uninstall_hook,
                          update_hook |-> builder.update_hook,
                          is_updated_hook |-> builder.is_updated_hook]
            /\ finalized' = ncalls'
            /\ frame' = [done("to_recipe", "none") EXCEPT !.environ = environ]
            /\ UNCHANGED <<failed, builder>>
    /\ UNCHANGED <<heap, nsteps, created, selected>>

\* environ is what os.environ.get("DEVM_DEBUG") gives at this call
to_recipe ==
    /\ BuilderCall
    /\ \E environ \in DebugValues :
       IF hooks_missing(builder, environ)
       THEN /\ frame' = [done("to_recipe", "HooksMissing") EXCEPT !.environ = environ]
            /\ failed' = ncalls'
            /\ UNCHANGED <<recipe, finalized>>
       ELSE /\ recipe' = [made |-> TRUE,
                          name |-> builder.name,
                          description |-> <<>>,
                          install_hook |-> builder.install_hook,
                          uninstall_hook |-> builder.uninstall_hook,
                          update_hook |-> builder.update_hook,
                          is_updated_hook |-> builder.is_updated_hook]
            /\ finalized' = ncalls'
            /\ frame' = [done("to_recipe", "none") EXCEPT !.environ = environ]
            /\ UNCHANGED failed
    /\ UNCHANGED <<builder, heap, nsteps, created, selected>>

-----------------------------------------------------------------------------
(* The step closures.  o is what the external collaborator did:             *)
(* [ok |-> TRUE, ...] when it completed, [ok |-> FALSE, msg |-> str(err)]   *)
(* when it raised.  Each operator gives the closure's outcome:              *)
(* [raised, result, step], step being the closure after the call.           *)

Completed == [ok |-> TRUE, msg |-> <<>>, code |-> 0, out |-> <<>>, err |-> <<>>]
Raised(msg) == [ok |-> FALSE, msg |-> msg, code |-> 0, out |-> <<>>, err |-> <<>>]
Exited(code, out, err) == [ok |-> TRUE, msg |-> <<>>, code |-> code, out |-> out, err |-> err]

\* what str(err) is when dest.encode is evaluated with dest = None
AttributeErrorText == <<"'NoneType' object has no attribute 'encode'">>

\* what the collaborator of a step can do
Outcomes(step) ==
    IF step.kind = "cmd"
    THEN {Exited(c, out, err) : c \in ExitCodes, out \in ProcessOutputs, err \in ProcessOutputs}
         \cup {Raised(m) : m \in ErrorTexts}
    ELSE {Completed} \cup {Raised(m) : m \in ErrorTexts}

Returns(step, result) == [raised |-> FALSE, result |-> result, step |-> step]
Propagates(step) == [raised |-> TRUE, result |-> StepExecutionResult(0, <<>>, <<>>), step |-> step]

\* the except clause shared by download, extract and rm
caught(err) == StepExecutionResult(EX_SOFTWARE, <<>>, encode(err))

download_step(step, o) ==
    IF o.ok
    THEN Returns(step, StepExecutionResult(EX_OK, <<"downloaded to ">> \o encode(step.path), <<>>))
    ELSE Returns(step, caught(o.msg))

extract_step(step, o) ==
    IF ~o.ok
    THEN Returns(step, caught(o.msg))
    ELSE IF step.dest.isNone
         THEN Returns(step, caught(AttributeErrorText))
         ELSE Returns(step, StepExecutionResult(EX_OK,
                  <<"extracted">> \o <<" ">> \o encode(step.src) \o <<" ">>
                      \o <<"to">> \o <<" ">> \o encode(step.dest.v),
                  <<>>))

\* a faulty remove step: no try block, the error of rmtree leaves the step
rm_step_uncaught(step, o) ==
    IF o.ok
    THEN Returns(step, StepExecutionResult(EX_OK, <<"removed ">> \o encode(step.path), <<>>))
    ELSE Propagates(step)

rm_step(step, o) ==
    IF o.ok
    THEN Returns(step, StepExecutionResult(EX_OK, <<"removed ">> \o encode(step.path), <<>>))
    ELSE Returns(step, caught(o.msg))

\* a faulty command step: it catches the launch error like the other steps
cmd_step_caught(step, o, getcwd) ==
    LET bound == IF step.cwd = <<>> THEN [step EXCEPT !.cwd = getcwd] ELSE step
    IN IF o.ok
       THEN Returns(bound, StepExecutionResult(o.code, o.out, o.err))
       ELSE Returns(bound, caught(o.msg))

\* the closure of Builder.cmd: cwd is nonlocal and bound on the first run
cmd_step(step, o, getcwd) ==
    LET bound == IF step.cwd = <<>> THEN [step EXCEPT !.cwd = getcwd] ELSE step
    IN IF o.ok
       THEN Returns(bound, StepExecutionResult(o.code, o.out, o.err))
       ELSE Propagates(bound)

call_step(step, o, getcwd) ==
    CASE step.kind = "download" -> download_step(step, o)
      [] step.kind = "extract"  -> extract_step(step, o)
      [] step.kind = "rm"       -> rm_step(step, o)
      [] step.kind = "cmd"      -> cmd_step(step, o, getcwd)

-----------------------------------------------------------------------------
(* Hook.__call__ and the Recipe operations that invoke it *)

\* a faulty lookup: every operation calls the install hook
hook_of_install(r, op) == r.install_hook

\* the Hook a Recipe operation calls
hook_of(r, op) ==
    CASE op = "Recipe.install"    -> r.install_hook
      [] op = "Recipe.update"     -> r.update_hook
      [] op = "Recipe.uninstall"  -> r.uninstall_hook
      [] op = "Recipe.is_updated" -> r.is_updated_hook

\* The working directory of the caller during an invocation: any directory.
\* It is kept in the frame when the hook has a command step, the only code that
\* reads it, and left out (<<>>) otherwise.
caller_cwds(h) ==
    IF h # NONE /\ \E n \in 1..Len(heap[h].steps) : heap[h].steps[n].kind = "cmd"
    THEN ProcessCwds
    ELSE {<<>>}

\* a faulty call: an absent hook counts as a hook without steps
enter_lenient(op, h, notice) ==
    \E getcwd \in caller_cwds(h) :
        frame' = IF h = NONE
                 THEN [IdleFrame EXCEPT !.pc = "returned", !.op = op, !.notice = notice,
                                        !.truth = (op = "Recipe.is_updated")]
                 ELSE [IdleFrame EXCEPT !.pc = "running", !.op = op, !.notice = notice,
                                        !.hook = h, !.i = 1, !.calls = 1, !.getcwd = getcwd]

\* entering Hook.__call__ on reference h (calling None raises TypeError)
enter(op, h, notice) ==
    \E getcwd \in caller_cwds(h) :
        frame' = IF h = NONE
                 THEN [IdleFrame EXCEPT !.pc = "raised", !.op = op, !.notice = notice,
                                        !.exc = "TypeError"]
                 ELSE [IdleFrame EXCEPT !.pc = "running", !.op = op, !.notice = notice,
                                        !.hook = h, !.i = 1, !.calls = 1, !.getcwd = getcwd]

Recipe_install ==
    /\ CallerRuns /\ recipe.made
    /\ enter("Recipe.install", hook_of(recipe, "Recipe.install"), <<"[*] Installing ">> \o recipe.name)
    /\ UNCHANGED <<builder, heap, recipe, ncalls, nsteps, created, selected, finalized, failed>>

Recipe_update ==
    /\ CallerRuns /\ recipe.made
    /\ enter("Recipe.update", hook_of(recipe, "Recipe.update"), <<"[*] Updating ">> \o recipe.name)
    /\ UNCHANGED <<builder, heap, recipe, ncalls, nsteps, created, selected, finalized, failed>>

Recipe_uninstall ==
    /\ CallerRuns /\ recipe.made
    /\ enter("Recipe.uninstall", hook_of(recipe, "Recipe.uninstall"), <<"[*] Uninstalling ">> \o recipe.name)
    /\ UNCHANGED <<builder, heap, recipe, ncalls, nsteps, created, selected, finalized, failed>>

Recipe_is_updated ==
    /\ CallerRuns /\ recipe.made
    /\ enter("Recipe.is_updated", hook_of(recipe, "Recipe.is_updated"), <<>>)
    /\ UNCHANGED <<builder, heap, recipe, ncalls, nsteps, created, selected, finalized, failed>>

\* a faulty loop: it goes through the steps backwards
iteration_reversed(steps, i) == Len(steps) + 1 - i

\* for step in self.steps: the position in steps of the step of iteration i
iteration(steps, i) == i

\* a faulty loop: it stops at the first non-zero status
advance_break(steps, i, result) == IF result.return_code # 0 THEN Len(steps) + 1 ELSE i + 1

\* the loop goes on to the next iteration whatever the step returned
advance(steps, i, result) == i + 1

\* a faulty loop: it takes each step out of the hook as it runs it
Hook_step_consuming ==
    /\ frame.pc = "running"
    /\ frame.i <= Len(heap[frame.hook].steps)
    /\ LET steps == heap[frame.hook].steps
           at == iteration(steps, frame.i)
           step == steps[at]
       IN \E o \in Outcomes(step) :
            LET res == call_step(step, o, frame.getcwd)
                entry == [id |-> step.id, o |-> o, raised |-> res.raised, ret |-> res.result,
                          cwd |-> IF step.kind = "cmd" THEN res.step.cwd ELSE <<>>]
            IN /\ heap' = [heap EXCEPT ![frame.hook].steps =
                               SelectSeq(steps, LAMBDA x : x.id # step.id)]
               /\ frame' =
                    IF res.raised
                    THEN [frame EXCEPT !.pc = "raised", !.exc = "LaunchError",
                                       !.log = Append(@, entry)]
                    ELSE [frame EXCEPT !.r = Append(@, res.result),
                                       !.log = Append(@, entry)]
    /\ UNCHANGED <<builder, recipe, ncalls, nsteps, created, selected, finalized, failed>>

\* one iteration of the for loop: r.append(step(*args, **kwargs))
Hook_step ==
    /\ frame.pc = "running"
    /\ frame.i <= Len(heap[frame.hook].steps)
    /\ LET steps == heap[frame.hook].steps
           at == iteration(steps, frame.i)
           step == steps[at]
       IN \E o \in Outcomes(step) :
            LET res == call_step(step, o, frame.getcwd)
                entry == [id |-> step.id, o |-> o, raised |-> res.raised, ret |-> res.result,
                          cwd |-> IF step.kind = "cmd" THEN res.step.cwd ELSE <<>>]
            IN /\ heap' = [heap EXCEPT ![frame.hook].steps[at] = res.step]
               /\ frame' =
                    IF res.raised
                    THEN [frame EXCEPT !.pc = "raised", !.exc = "LaunchError",
                                       !.log = Append(@, entry)]
                    ELSE [frame EXCEPT !.i = advance(steps, @, res.result),
                                       !.r = Append(@, res.result),
                                       !.log = Append(@, entry)]
    /\ UNCHANGED <<builder, recipe, ncalls, nsteps, created, selected, finalized, failed>>

\* a faulty test: it looks at the first result only
all_ok_first(results) == results = <<>> \/ results[1].return_code = 0

\* all(r.return_code == 0 for r in results)
all_ok(results) == \A j \in 1..Len(results) : results[j].return_code = 0

\* the loop is over: return r, and what Recipe.is_updated makes of it
Hook_return ==
    /\ frame.pc = "running"
    /\ frame.i > Len(heap[frame.hook].steps)
    /\ frame' = [frame EXCEPT !.pc = "returned",
                              !.truth = (frame.op = "Recipe.is_updated" /\ all_ok(frame.r))]
    /\ UNCHANGED <<builder, heap, recipe, ncalls, nsteps, created, selected, finalized, failed>>

-----------------------------------------------------------------------------

Next ==
    \/ install \/ uninstall \/ update \/ is_updated
    \/ download \/ extract \/ rm \/ cmd
    \/ to_recipe
    \/ Recipe_install \/ Recipe_update \/ Recipe_uninstall \/ Recipe_is_updated
    \/ Hook_step \/ Hook_return

Spec == Init /\ [][Next]_vars

\* A Builder that already went through recipe(n, d).install().<step> or
\* recipe(n, d).uninstall().<step>.  Calls are numbered from the initial
\* state: the two calls that built this Builder carry the numbers -1 and 0.
InitRetry ==
    /\ \E n \in Names, d \in Descriptions, k \in {"install", "uninstall"}, p \in Paths :
         LET s == [id |-> 1, kind |-> "rm", path |-> p]
             b == [name |-> n, description |-> d, current_hook |-> k,
                   install_hook |-> NONE, uninstall_hook |-> NONE,
                   update_hook |-> NONE, is_updated_hook |-> NONE]
         IN /\ builder = IF k = "install" THEN [b EXCEPT !.install_hook = k]
                                          ELSE [b EXCEPT !.uninstall_hook = k]
            /\ heap = (k :> Hook(<<s>>, d))
            /\ selected = [kind |-> k, at |-> -1]
            /\ created = <<[step |-> s, selected |-> [kind |-> k, at |-> -1], at |-> 0]>>
    /\ recipe = NoRecipe
    /\ frame = done("rm", "none")
    /\ ncalls = 0
    /\ nsteps = 1
    /\ finalized = 0
    /\ failed = 0

\* the caller goes on building and finalizing
NextBuilder ==
    \/ install \/ uninstall \/ update \/ is_updated
    \/ download \/ extract \/ rm \/ cmd
    \/ to_recipe

SpecRetry == InitRetry /\ [][NextBuilder]_vars

-----------------------------------------------------------------------------
(* Properties *)

ids(steps) == [j \in 1..Len(steps) |-> steps[j].id]

\* a Recipe operation has invoked its Hook
Invoked == frame.op \in RecipeOps /\ frame.hook # NONE
InvocationReturned == Invoked /\ frame.pc = "returned"
InvocationRaised == Invoked /\ frame.pc = "raised"

\* C1: an invocation of a Hook with N steps that all returned a result returns
\* exactly N results, the i-th being what the i-th appended step returned,
\* whatever the status codes of the earlier results.
C1_AllResultsInOrder ==
    InvocationReturned =>
        LET steps == heap[frame.hook].steps
        IN /\ Len(frame.r) = Len(steps)
           /\ Len(frame.log) = Len(steps)
           /\ \A j \in 1..Len(steps) :
                /\ frame.log[j].id = steps[j].id
                /\ ~frame.log[j].raised
                /\ frame.r[j] = frame.log[j].ret

\* Recipe.install() returned the two results of a two-step hook: the first is
\* an internal failure, and the second step's success follows it
C1_Witness ==
    /\ InvocationReturned
    /\ frame.op = "Recipe.install"
    /\ Len(frame.r) = 2
    /\ frame.r[1].return_code = EX_SOFTWARE
    /\ frame.r[2].return_code = EX_OK

\* C2 as stated: at the end of every invocation every step of the hook has run
\* exactly once, in append order, however the earlier steps ended.
C2_EveryStepRuns ==
    (Invoked /\ frame.pc \in {"returned", "raised"}) =>
        ids(frame.log) = ids(heap[frame.hook].steps)

\* C2 amended: the steps run one after the other in append order, each at most
\* once; a step runs whenever every step before it returned a result, whatever
\* its status, so an invocation that returns has run every step exactly once;
\* a command step that cannot be launched ends the invocation, and the steps
\* after it do not run.
C2_StepsRunInOrder ==
    Invoked =>
        LET steps == heap[frame.hook].steps
            log == frame.log
        IN /\ Len(log) <= Len(steps)
           /\ \A j \in 1..Len(log) : log[j].id = steps[j].id
           /\ \A j \in 1..Len(log) : log[j].raised <=> (j = Len(log) /\ frame.pc = "raised")
           /\ frame.pc = "running" => Len(log) = frame.i - 1
           /\ frame.pc = "returned" => Len(log) = Len(steps)
           /\ frame.pc = "raised" =>
                /\ Len(log) >= 1
                /\ created[log[Len(log)].id].step.kind = "cmd"
                /\ ~log[Len(log)].o.ok

\* a hook of two steps returned although its first step ended with a failure
\* status: the second step ran all the same
C2_Witness ==
    /\ InvocationReturned
    /\ Len(frame.log) = 2
    /\ frame.r[1].return_code # 0
    /\ frame.log[1].id # frame.log[2].id

\* C3: while no selection call has been made, every step-adding call raises
\* CurrentHooksNotSet and the Builder is as the factory made it: no Hook
\* exists, no step has been created, the current-hook pointer is unset.
C3_NoHookNoStep ==
    selected.kind = "none" =>
        /\ builder.current_hook = NONE
        /\ \A k \in Kinds : slot(builder, k) = NONE
        /\ DOMAIN heap = {}
        /\ nsteps = 0 /\ created = <<>>
        /\ frame.op \in StepOps => (frame.pc = "raised" /\ frame.exc = "CurrentHooksNotSet")

C3_Witness ==
    /\ selected.kind = "none"
    /\ frame.op = "cmd"
    /\ frame.exc = "CurrentHooksNotSet"
    /\ ncalls >= 2

\* the steps created while kind k was selected, in the order of their creation
added(k) == SelectSeq(created, LAMBDA c : c.selected.kind = k)

\* the steps created by calls after the to_recipe call that returned recipe
later(k) == SelectSeq(added(k), LAMBDA c : c.at > finalized)

\* C4: a selection never resets a Hook: the steps of the Hook of each kind are
\* the steps created while that kind was selected, in the order of their
\* creation, over all the visits to that kind.
C4_SelectionKeepsSteps ==
    \A k \in Kinds :
        IF slot(builder, k) = NONE
        THEN added(k) = <<>>
        ELSE /\ slot(builder, k) \in DOMAIN heap
             /\ ids(heap[slot(builder, k)].steps) = [j \in 1..Len(added(k)) |-> added(k)[j].step.id]

\* a kind was selected, given a step, selected again and given a second step
C4_Witness ==
    \E k \in Kinds :
        /\ Len(added(k)) = 2
        /\ added(k)[1].selected.at < added(k)[2].selected.at
        /\ Len(heap[slot(builder, k)].steps) = 2

\* C5: to_recipe raises HooksMissing exactly when DEVM_DEBUG is not set to a
\* truthy value and the install hook or the uninstall hook is unset; in every
\* other case it returns a Recipe.  The update and is-updated hooks have no part.
C5_HooksMissingExactly ==
    frame.op = "to_recipe" =>
        /\ frame.pc \in {"returned", "raised"}
        /\ frame.pc = "raised" <=>
               /\ ~truthy(frame.environ)
               /\ builder.install_hook = NONE \/ builder.uninstall_hook = NONE
        /\ frame.pc = "raised" => frame.exc = "HooksMissing"
        /\ frame.pc = "returned" => (recipe.made /\ finalized = ncalls)

\* to_recipe failed on a Builder that has its install and update hooks, not
\* its uninstall hook
C5_Witness ==
    /\ frame.op = "to_recipe"
    /\ frame.exc = "HooksMissing"
    /\ builder.install_hook # NONE
    /\ builder.update_hook # NONE
    /\ builder.uninstall_hook = NONE

\* C6: when Recipe.is_updated() returns, it returns true exactly when no
\* result of the is-updated hook has a non-zero status (true for no result at
\* all); it has invoked the hook once and every step of the hook has run.
C6_IsUpdatedIffAllZero ==
    (frame.op = "Recipe.is_updated" /\ frame.pc = "returned") =>
        /\ frame.truth <=> ~(\E j \in 1..Len(frame.r) : frame.r[j].return_code # 0)
        /\ frame.calls = 1
        /\ frame.hook = recipe.is_updated_hook
        /\ Len(frame.r) = Len(heap[frame.hook].steps)
        /\ Len(frame.log) = Len(heap[frame.hook].steps)

\* is_updated() returned false for the statuses (0, non-zero)
C6_Witness ==
    /\ frame.op = "Recipe.is_updated" /\ frame.pc = "returned"
    /\ Len(frame.r) = 2
    /\ frame.r[1].return_code = 0
    /\ frame.r[2].return_code # 0
    /\ ~frame.truth

\* the kind of a Recipe operation
kind_of(op) ==
    CASE op = "Recipe.install"    -> "install"
      [] op = "Recipe.update"     -> "update"
      [] op = "Recipe.uninstall"  -> "uninstall"
      [] op = "Recipe.is_updated" -> "is_updated"

\* the ids in a log
ran == {frame.log[j].id : j \in 1..Len(frame.log)}

\* C7 as stated: for each of the four kinds, every step added through the
\* Builder after to_recipe returned is a step of the Hook that the Recipe's
\* operation of that kind calls.
C7_LaterStepsVisible ==
    recipe.made =>
        \A op \in RecipeOps :
            \A j \in 1..Len(later(kind_of(op))) :
                /\ hook_of(recipe, op) # NONE
                /\ later(kind_of(op))[j].step.id
                       \in {st.id : st \in {heap[hook_of(recipe, op)].steps[n] :
                                                n \in 1..Len(heap[hook_of(recipe, op)].steps)}}

\* C7 amended: for each kind whose hook was set when to_recipe returned, the
\* Recipe holds the Builder's Hook of that kind, so every step added later
\* while that kind is selected is a step the Recipe's operation of that kind
\* executes.  A kind selected for the first time after to_recipe gets a Hook
\* the Recipe does not hold: the Recipe's hook of that kind stays absent.
C7_SharedHooksVisible ==
    recipe.made =>
        \A op \in RecipeOps :
            LET k == kind_of(op)
                h == hook_of(recipe, op)
            IN /\ h # NONE =>
                    /\ h = slot(builder, k)
                    /\ \A j \in 1..Len(later(k)) :
                           \E n \in 1..Len(heap[h].steps) : heap[h].steps[n].id = later(k)[j].step.id
                    /\ (frame.op = op /\ frame.pc = "returned") =>
                           /\ frame.hook = h
                           /\ \A j \in 1..Len(later(k)) : later(k)[j].step.id \in ran
               /\ h = NONE => (frame.op = op => (frame.pc = "raised" /\ frame.log = <<>>))

\* a step added to the install hook after to_recipe has been run by
\* Recipe.install()
C7_Witness ==
    /\ recipe.made
    /\ frame.op = "Recipe.install" /\ frame.pc = "returned"
    /\ later("install") # <<>>
    /\ later("install")[1].step.id \in ran

\* the closure with id n as its constructor made it
made(n) == created[n].step

\* C8 (the claim; the code breaks it when dest is left at None): an extract
\* step whose xtract call completed returns the success status, the stdout
\* "extracted {src} to {dest}" and an empty stderr; it returns the
\* internal-failure status only when xtract raised.
C8_ExtractSucceeds ==
    Invoked =>
        \A j \in 1..Len(frame.log) :
            LET e == frame.log[j]
                step == made(e.id)
            IN step.kind = "extract" =>
                /\ ~e.raised
                /\ e.o.ok =>
                       /\ e.ret.return_code = EX_OK
                       /\ e.ret.stderr = <<>>
                       /\ ~step.dest.isNone =>
                              e.ret.stdout = <<"extracted", " ">> \o encode(step.src)
                                                 \o <<" ", "to", " ">> \o encode(step.dest.v)
                /\ e.ret.return_code = EX_SOFTWARE => ~e.o.ok

\* C9 (the claim; the code breaks it, the closure stores the directory of its
\* first run): a command step built with an empty cwd runs in the working
\* directory the caller has during the invocation, and no step of any hook
\* ever differs from the closure its constructor made.
C9_CwdReadAtEachInvocation ==
    /\ \A h \in DOMAIN heap :
           \A n \in 1..Len(heap[h].steps) : heap[h].steps[n] = made(heap[h].steps[n].id)
    /\ Invoked =>
           \A j \in 1..Len(frame.log) :
               LET e == frame.log[j]
               IN (made(e.id).kind = "cmd" /\ made(e.id).cwd = <<>>) => e.cwd = frame.getcwd

\* C10: a command step whose process was launched returns the process's exit
\* code, whatever it is, with its stdout and stderr; one whose process could
\* not be launched returns nothing: the error leaves the Hook invocation, and
\* the Recipe operation that made it, with the results of the earlier steps
\* lost to the caller.
C10_CmdStatusOrPropagate ==
    Invoked =>
        \A j \in 1..Len(frame.log) :
            LET e == frame.log[j]
            IN made(e.id).kind = "cmd" =>
                /\ e.o.ok =>
                       /\ ~e.raised
                       /\ frame.r[j] = StepExecutionResult(e.o.code, e.o.out, e.o.err)
                /\ ~e.o.ok =>
                       /\ e.raised
                       /\ j = Len(frame.log)
                       /\ Len(frame.r) = j - 1
                       /\ frame.pc = "raised" /\ frame.exc = "LaunchError"

\* Recipe.install() ran a command that exited with 7, then one that could not
\* be launched: the first result has status 7 and the call raised
C10_Witness ==
    /\ frame.op = "Recipe.install"
    /\ frame.pc = "raised" /\ frame.exc = "LaunchError"
    /\ Len(frame.log) = 2
    /\ frame.log[1].o.code = 7
    /\ frame.r = <<StepExecutionResult(7, frame.log[1].o.out, frame.log[1].o.err)>>

\* C11: a download, extract or remove step whose transport, extraction or
\* filesystem action raised returns one result: the internal-failure status,
\* an empty stdout and the encoded text of the error as stderr.  The error
\* does not leave the invocation, and the loop goes on to the next step.
C11_ErrorsBecomeResults ==
    Invoked =>
        \A j \in 1..Len(frame.log) :
            LET e == frame.log[j]
            IN (made(e.id).kind \in {"download", "extract", "rm"} /\ ~e.o.ok) =>
                /\ ~e.raised
                /\ Len(frame.r) >= j
                /\ frame.r[j] = StepExecutionResult(EX_SOFTWARE, <<>>, encode(e.o.msg))
                /\ frame.pc = "raised" => j < Len(frame.log)
                /\ frame.pc = "running" => (j < Len(frame.log) \/ frame.i = j + 1)
                /\ frame.pc = "returned" => Len(frame.log) = Len(heap[frame.hook].steps)

\* the rmtree of a first step raised, and the step after it ran
C11_Witness ==
    /\ InvocationReturned
    /\ Len(frame.log) = 2
    /\ made(frame.log[1].id).kind = "rm"
    /\ ~frame.log[1].o.ok
    /\ frame.r[1].return_code = EX_SOFTWARE
    /\ frame.r[1].stderr = <<"e">>

\* the Recipe holds the Builder's four Hook references, and these hooks hold
\* every step created so far
holds_every_step ==
    /\ recipe.made
    /\ \A k \in Kinds :
        /\ slot(recipe, k) = slot(builder, k)
        /\ slot(builder, k) = NONE => added(k) = <<>>
        /\ slot(builder, k) # NONE =>
             ids(heap[slot(builder, k)].steps) = [j \in 1..Len(added(k)) |-> added(k)[j].step.id]

\* a to_recipe call that follows a failed one, made when both required hooks
\* are set, returns a Recipe with every step
RetrySucceeds ==
    (/\ frame.op = "to_recipe"
     /\ failed > 0
     /\ failed < ncalls
     /\ builder.install_hook # NONE
     /\ builder.uninstall_hook # NONE)
    => (frame.pc = "returned" /\ finalized = ncalls /\ holds_every_step)

\* C12: a to_recipe call that raises HooksMissing leaves the Builder, its
\* hooks and their steps as they were; once the missing hook is selected, a
\* later to_recipe call returns a Recipe that holds every step, those added
\* before the failed call and those added after it.
C12_FailedFinalizationRetried ==
    [][/\ (frame'.op = "to_recipe" /\ frame'.exc = "HooksMissing" /\ ncalls' # ncalls)
            => (builder' = builder /\ heap' = heap /\ recipe' = recipe)
       /\ RetrySucceeds']_vars

\* the retry returned; one step was added before the failed call, one after it
C12_Witness ==
    /\ frame.op = "to_recipe"
    /\ frame.pc = "returned"
    /\ ~truthy(frame.environ)
    /\ failed > 0
    /\ finalized = ncalls
    /\ \E i, j \in 1..Len(created) : created[i].at < failed /\ created[j].at > failed
    /\ holds_every_step

\* C13 (the claim; the code breaks it, to_recipe does not hand the description
\* to the Recipe): the Recipe that to_recipe returns has the Builder's name,
\* the Builder's description and, for each of the four kinds, the Hook
\* reference the Builder's slot holds at that moment (None where unset).
C13_RecipeMirrorsBuilder ==
    (frame.op = "to_recipe" /\ frame.pc = "returned") =>
        /\ recipe.made
        /\ recipe.name = builder.name
        /\ recipe.description = builder.description
        /\ \A k \in Kinds : slot(recipe, k) = slot(builder, k)

\* the current hook is None or the Hook of one of the four slots
current_is_a_slot ==
    builder.current_hook = NONE \/ \E k \in Kinds : slot(builder, k) = builder.current_hook

\* C14: the current hook is always None or the Hook held in one of the four
\* slots, and right after a selection of kind K it is the Hook in slot K.  A
\* step constructor that returns appends one step at the end of the current
\* hook and leaves the current hook, the four slots and the steps of every
\* other hook as they were.
C14_CurrentHookAndAppend ==
    [][/\ current_is_a_slot'
       /\ (ncalls' # ncalls /\ frame'.op \in Kinds) =>
            /\ builder'.current_hook # NONE
            /\ builder'.current_hook = slot(builder', frame'.op)
       /\ (ncalls' # ncalls /\ frame'.op \in StepOps /\ frame'.pc = "returned") =>
            /\ builder' = builder
            /\ DOMAIN heap' = DOMAIN heap
            /\ Len(created') = Len(created) + 1
            /\ \A h \in DOMAIN heap :
                 heap'[h].steps = IF h = builder.current_hook
                                  THEN Append(heap[h].steps, created'[Len(created')].step)
                                  ELSE heap[h].steps]_vars

\* a step was just added to a second hook, after the first got its step
C14_Witness ==
    /\ frame.op \in StepOps
    /\ frame.pc = "returned"
    /\ builder.current_hook = builder.uninstall_hook
    /\ builder.install_hook # NONE
    /\ builder.uninstall_hook # NONE
    /\ Len(heap[builder.install_hook].steps) = 1
    /\ Len(heap[builder.uninstall_hook].steps) = 1
    /\ created[2].at = ncalls

\* what a step of the caller that is no Builder call leaves as it was: the
\* closures each hook holds and their order, the slots and the current hook of
\* the Builder, the Recipe
invocation_keeps ==
    ncalls' = ncalls =>
        /\ DOMAIN heap' = DOMAIN heap
        /\ \A h \in DOMAIN heap : ids(heap'[h].steps) = ids(heap[h].steps)
        /\ builder' = builder
        /\ recipe' = recipe

\* the closures the invocation ran so far, in the order it ran them
ran_ids == [j \in 1..Len(frame.log) |-> frame.log[j].id]

\* C15 (the claim): invoking a Hook changes no hook's step sequence, no slot
\* of the Builder or of the Recipe and not the current hook; so every
\* invocation of a hook with N steps, the first and each later one, executes
\* the N steps in their order.
C15_EveryInvocationRunsAll ==
    [][/\ invocation_keeps
       /\ (Invoked' /\ frame'.pc # "running") =>
              ran_ids' = ids(heap'[frame'.hook].steps)]_vars

\* C15 (amended): invoking a Hook changes no hook's step sequence, no slot of
\* the Builder or of the Recipe and not the current hook; so every invocation,
\* the first and each later one, executes the steps in their order: all of
\* them when it returns, and those up to a command step that could not be
\* launched when it raises.
C15_InvocationKeepsHooks ==
    [][/\ invocation_keeps
       /\ Invoked' =>
            LET steps == ids(heap'[frame'.hook].steps)
                n == Len(frame'.log)
            IN /\ n <= Len(steps)
               /\ ran_ids' = SubSeq(steps, 1, n)
               /\ frame'.pc = "returned" => n = Len(steps)
               /\ frame'.pc = "running" => n = frame'.i - 1
               /\ frame'.pc = "raised" =>
                    /\ n >= 1
                    /\ made(frame'.log[n].id).kind = "cmd"
                    /\ ~frame'.log[n].o.ok]_vars

\* An invocation that is not the first of its hook returned after running both
\* steps in order: the command step, made without cwd, ran in the directory an
\* earlier invocation stored in it, which is not the caller's present one.
C15_Witness ==
    /\ InvocationReturned
    /\ Len(heap[frame.hook].steps) = 2
    /\ ran_ids = ids(heap[frame.hook].steps)
    /\ \E j \in 1..2 :
         /\ made(frame.log[j].id).kind = "cmd"
         /\ made(frame.log[j].id).cwd = <<>>
         /\ frame.log[j].cwd # frame.getcwd

\* the progress notice of a Recipe operation (is_updated prints none)
notice_of(op) ==
    CASE op = "Recipe.install"    -> <<"[*] Installing ">> \o recipe.name
      [] op = "Recipe.update"     -> <<"[*] Updating ">> \o recipe.name
      [] op = "Recipe.uninstall"  -> <<"[*] Uninstalling ">> \o recipe.name
      [] op = "Recipe.is_updated" -> <<>>

\* C16: a Recipe operation whose hook is None raises instead of returning a
\* result and runs no step of any hook; this is so for update, uninstall and
\* is_updated, and for install on a Recipe made without an install hook.  The
\* notice of install, update and uninstall, which names the recipe, is out
\* before the hook is called, so before the failure too.
C16_AbsentHookFails ==
    frame.op \in RecipeOps =>
        /\ frame.notice = notice_of(frame.op)
        /\ hook_of(recipe, frame.op) = NONE =>
             /\ frame.pc = "raised"
             /\ frame.exc = "TypeError"
             /\ frame.hook = NONE
             /\ frame.r = <<>>
             /\ frame.log = <<>>
             /\ ~frame.truth
        /\ hook_of(recipe, frame.op) # NONE => frame.exc # "TypeError"

\* install() on a Recipe without install hook raised after its notice; the
\* uninstall hook of that Recipe has a step, which did not run
C16_Witness ==
    /\ frame.op = "Recipe.install"
    /\ recipe.install_hook = NONE
    /\ frame.pc = "raised"
    /\ frame.notice = <<"[*] Installing ", "n">>
    /\ frame.log = <<>>
    /\ recipe.uninstall_hook # NONE
    /\ Len(heap[recipe.uninstall_hook].steps) = 1

\* the step of log entry e is a download, extract or rm step whose try block
\* caught an error: the one its collaborator raised, or the AttributeError of
\* dest.encode when dest is None
caught_an_error(e) ==
    /\ made(e.id).kind \in {"download", "extract", "rm"}
    /\ \/ ~e.o.ok
       \/ made(e.id).kind = "extract" /\ made(e.id).dest.isNone

\* C17 (the claim; the code breaks it, a command step hands on whatever status
\* its process exits with, EX_SOFTWARE included): in the results of a Hook a
\* result has the internal-failure status exactly when a download, extract or
\* rm step that caught an error produced it, and every other non-zero status
\* is the exit status of the process of a command step.
C17_InternalFailureDistinguished ==
    Invoked =>
        \A j \in 1..Len(frame.r) :
            LET e == frame.log[j]
                rc == frame.r[j].return_code
            IN /\ rc = EX_SOFTWARE <=> caught_an_error(e)
               /\ rc \notin {EX_OK, EX_SOFTWARE} =>
                    (made(e.id).kind = "cmd" /\ e.o.ok /\ rc = e.o.code)

====
